---- MODULE Spec2Model ----
(***************************************************************************)
(* Model of the recursive research orchestrator of src/src/deep-research.ts *)
(* (deepResearch): one top-level call, its tree of nested invocations, the  *)
(* branch tasks each invocation runs through its own p-limit gate, the      *)
(* three accumulator arrays shared by reference, the per-invocation         *)
(* progress record and the progress sink.                                   *)
(*                                                                         *)
(* An invocation is named by its path: <<>> is the top-level call, and the  *)
(* i-th branch of invocation q is q \o <<i>>.  The invocation a branch      *)
(* starts by recursing carries the branch's own path.                       *)
(*                                                                         *)
(* One action is one JavaScript turn: the continuation that runs when a     *)
(* collaborator call settles, together with all promise reactions           *)
(* (microtasks) it triggers before the next collaborator call can settle.   *)
(***************************************************************************)
EXTENDS Integers, Sequences, FiniteSets, TLC

VARIABLES
    inv,             \* path -> invocation of deepResearch
    br,              \* path -> branch task (the async function given to limit)
    learnings,       \* shared accumulator array
    visitedUrls,     \* shared accumulator array
    sourceContents,  \* shared accumulator array
    sink,            \* what onProgress received last, and how many calls
    rep,             \* the call of writeFinalReport that follows the research
    mA, mB, mOut     \* inputs and outputs of the merge (merge as a pure function)

vars == <<inv, br, learnings, visitedUrls, sourceContents, sink, rep, mA, mB, mOut>>

----------------------------------------------------------------------------
(* Bounds of the model *)

MaxBreadth == 3
MaxDepth == 3
MaxBranches == 4
MaxLen == 2

(* Program constants *)

ConcurrencyLimit == 2
ContentBudget == 25000

----------------------------------------------------------------------------
(* Small helpers *)

Min(a, b) == IF a <= b THEN a ELSE b

Range(s) == {s[i] : i \in 1..Len(s)}

Front(p) == SubSeq(p, 1, Len(p) - 1)

Last(p) == p[Len(p)]

RECURSIVE Pow2(_)
Pow2(n) == IF n = 0 THEN 1 ELSE 2 * Pow2(n - 1)

\* ceil(a / b) for a >= 0, b > 0, by integer arithmetic
CeilDiv(a, b) == (a + b - 1) \div b

----------------------------------------------------------------------------
(* Values *)

\* currentQuery of a progress record that has none
NoQuery == <<>>

\* the empty string, as a markdown content
EmptyStr == [id |-> <<>>, len |-> 0]

EmptyResult == [learnings |-> <<>>, visitedUrls |-> <<>>, sourceContents |-> <<>>]

NoResult == [kind |-> "none", val |-> EmptyResult]

\* lodash compact on a list of urls: drops the falsy (empty) ones
CompactUrls(s) == SelectSeq(s, LAMBDA u : u # <<>>)

\* lodash compact on a list of markdown strings
CompactContents(s) == SelectSeq(s, LAMBDA c : c.len # 0)

\* trimPrompt(content, budget): the content cut to the budget
TrimPrompt(c, budget) == IF c.len <= budget THEN c ELSE [c EXCEPT !.len = budget]

----------------------------------------------------------------------------
(* The collaborators' answers, fixed per query (a query is named by the    *)
(* path of the branch that runs it).                                       *)

\* what firecrawl.search resolves with: one page of the query's own with a
\* long markdown, one page every query finds that has no markdown, and one
\* item without url that carries a short markdown every query finds
SearchData(b) ==
    << [url |-> b,      markdown |-> [id |-> b, len |-> ContentBudget + 5000]],
       [url |-> <<0>>,  markdown |-> EmptyStr],
       [url |-> <<>>,   markdown |-> [id |-> <<0>>, len |-> 10]] >>

\* the learnings the extraction model returns: one of the query's own and
\* one every query yields
ExtractedLearnings(b) == <<b, <<0>>>>

\* processSerpResult: contents = compact(markdowns) each trimmed
ProcessSerpResult(b) ==
    LET md == [i \in 1..Len(SearchData(b)) |-> SearchData(b)[i].markdown]
        contents == [i \in 1..Len(CompactContents(md)) |->
                        TrimPrompt(CompactContents(md)[i], ContentBudget)]
    IN [learnings |-> ExtractedLearnings(b), contents |-> contents]

\* compact(result.data.map(item => item.url))
ResultUrls(b) ==
    CompactUrls([i \in 1..Len(SearchData(b)) |-> SearchData(b)[i].url])

\* res.object.queries.slice(0, numQueries) keeps this many of m queries
SliceCount(m, numQueries) == Min(m, numQueries)

----------------------------------------------------------------------------
(* Progress *)

InitProgress(breadth, depth) ==
    [currentDepth |-> depth, totalDepth |-> depth,
     currentBreadth |-> breadth, totalBreadth |-> breadth,
     currentQuery |-> NoQuery,
     totalQueries |-> 0, completedQueries |-> 0]

AssignResetsOthers(progress, update) ==
    [f \in DOMAIN progress |->
        IF f \in DOMAIN update THEN update[f] ELSE InitProgress(0, 0)[f]]

\* Object.assign(progress, update)
Assign(progress, update) ==
    [f \in DOMAIN progress |->
        IF f \in DOMAIN update THEN update[f] ELSE progress[f]]

\* the sink before any call of onProgress
NoUpdate == [f \in {} |-> 0]
NoSink == [n |-> 0, by |-> <<>>, update |-> NoUpdate,
           snap |-> InitProgress(0, 0)]

\* onProgress?.(progress), called by reportProgress(update) of invocation by
Notify(s, by, progress, update) ==
    [n |-> s.n + 1, by |-> by, update |-> update, snap |-> progress]

NextCompletedStale(progress) == 1

\* progress.completedQueries + 1
NextCompleted(progress) == progress.completedQueries + 1

----------------------------------------------------------------------------
(* The result merge of lines 352-356 *)

\* results.flatMap(r => r[field])
RECURSIVE FlatMap(_, _)
FlatMap(results, field) ==
    IF results = <<>> THEN <<>>
    ELSE results[1][field] \o FlatMap(Tail(results), field)

DedupeNothing(s) == s

\* [...new Set(s)]: first occurrences, in order
RECURSIVE Dedupe(_)
Dedupe(s) ==
    IF s = <<>> THEN <<>>
    ELSE LET d == Dedupe(SubSeq(s, 1, Len(s) - 1))
         IN IF s[Len(s)] \in Range(d) THEN d ELSE Append(d, s[Len(s)])

MergeFirstOnly(results) ==
    IF results = <<>> THEN EmptyResult
    ELSE [learnings      |-> Dedupe(results[1].learnings),
          visitedUrls    |-> Dedupe(results[1].visitedUrls),
          sourceContents |-> Dedupe(results[1].sourceContents)]

Merge(results) ==
    [learnings      |-> Dedupe(FlatMap(results, "learnings")),
     visitedUrls    |-> Dedupe(FlatMap(results, "visitedUrls")),
     sourceContents |-> Dedupe(FlatMap(results, "sourceContents"))]

----------------------------------------------------------------------------
(* Invocations, branches and the gate *)

NewInvocation(breadth, depth) ==
    [state |-> "gen", breadth |-> breadth, depth |-> depth, nq |-> 0,
     progress |-> InitProgress(breadth, depth), result |-> EmptyResult]

NewBranch == [pc |-> "queued", permit |-> FALSE, searches |-> 0,
              outcome |-> "none", result |-> NoResult]

Children(b, q) == {c \in DOMAIN b : Len(c) = Len(q) + 1 /\ Front(c) = q}

ActiveCount(b, q) == Cardinality({c \in Children(b, q) : b[c].permit})

\* p-limit: the queued function with the lowest index starts when a permit
\* is free; it runs up to its first await, the search call
StartNext(b, q) ==
    LET queued == {c \in Children(b, q) : b[c].pc = "queued"}
    IN IF queued # {} /\ ActiveCount(b, q) < ConcurrencyLimit
       THEN LET c == CHOOSE x \in queued : \A y \in queued : Last(x) <= Last(y)
            IN [b EXCEPT ![c].pc = "search", ![c].permit = TRUE,
                         ![c].searches = b[c].searches + 1]
       ELSE b

RECURSIVE StartAll(_, _)
StartAll(b, q) == IF StartNext(b, q) = b THEN b ELSE StartAll(StartNext(b, q), q)

ReleaseStopsAfterFailure(b, c) ==
    IF b[c].outcome \in {"searchFail", "extractFail"}
    THEN [b EXCEPT ![c].permit = FALSE]
    ELSE StartNext([b EXCEPT ![c].permit = FALSE], Front(c))

ReleaseUnlessFailed(b, c) ==
    IF b[c].outcome \in {"searchFail", "extractFail"} THEN b
    ELSE StartNext([b EXCEPT ![c].permit = FALSE], Front(c))

\* p-limit next(): the settled function gives its permit back and the next
\* queued one starts
ReleaseAndNext(b, c) == StartNext([b EXCEPT ![c].permit = FALSE], Front(c))

\* what a branch result holds when it is read: a terminal branch returned
\* the accumulator arrays themselves
Deref(r, acc) == IF r.kind = "ref" THEN acc ELSE r.val

BranchResults(s, q) ==
    [i \in 1..s.inv[q].nq |-> Deref(s.br[q \o <<i>>].result, s.acc)]

\* The promise reactions that follow the settling of branch c, all in the
\* same turn: the gate takes its permit back and starts the next queued
\* branch; Promise.all of the branch's invocation rejects at once if the
\* branch rejected and resolves once every branch has resolved; the
\* invocation then returns the merge or fails; and the branch that awaits
\* that invocation (return deepResearch(...), not awaited inside the try)
\* settles the same way, and so on upwards.
RECURSIVE Settle(_, _)
Settle(s, c) ==
    LET q  == Front(c)
        s1 == [s EXCEPT !.br = ReleaseAndNext(s.br, c)]
        s2 == IF s1.inv[q].state # "running" THEN s1
              ELSE IF s1.br[c].pc = "rejected"
                   THEN [s1 EXCEPT !.inv[q].state = "failed"]
              ELSE IF \A d \in Children(s1.br, q) : s1.br[d].pc = "done"
                   THEN [s1 EXCEPT !.inv[q].state = "returned",
                                   !.inv[q].result = Merge(BranchResults(s1, q))]
              ELSE s1
    IN IF s2.inv[q].state = s1.inv[q].state \/ q = <<>> THEN s2
       ELSE IF s2.inv[q].state = "returned"
            THEN Settle([s2 EXCEPT !.br[q].pc = "done",
                                   !.br[q].result = [kind |-> "val",
                                                     val |-> s2.inv[q].result]], q)
            ELSE Settle([s2 EXCEPT !.br[q].pc = "rejected"], q)

\* the same, started by invocation q settling with no branch of its own
\* involved (its query generation failed, or it generated no query)
SettleInvocation(s, q) ==
    IF q = <<>> THEN s
    ELSE IF s.inv[q].state = "returned"
         THEN Settle([s EXCEPT !.br[q].pc = "done",
                               !.br[q].result = [kind |-> "val",
                                                 val |-> s.inv[q].result]], q)
         ELSE Settle([s EXCEPT !.br[q].pc = "rejected"], q)

Acc == [learnings |-> learnings, visitedUrls |-> visitedUrls,
        sourceContents |-> sourceContents]

----------------------------------------------------------------------------
(* writeFinalReport and factCheck *)

\* what factCheck returns when it is given no source content
Fallback ==
    [unsupportedFacts |-> <<>>,
     overallAssessment |-> "Unable to fact check - no source content available"]

NoFactCheck == [unsupportedFacts |-> <<>>, overallAssessment |-> "none"]

NoArgs == [learnings |-> <<>>, visitedUrls |-> <<>>,
           given |-> FALSE, sourceContents |-> <<>>]

\* no call of writeFinalReport yet
NoReport == [pc |-> "idle", args |-> NoArgs, factCheckCalls |-> 0,
             checked |-> <<>>, factCheck |-> NoFactCheck, sources |-> <<>>]

\* writeFinalReport(args) up to its first await: the report model is asked
WriteFinalReportCalled(args) == [NoReport EXCEPT !.pc = "writing", !.args = args]

\* the default of factCheck's parameter: sourceContents = []
DefaultContents(args) == IF args.given THEN args.sourceContents ELSE <<>>

SkipOnlyWhenMissing(contents) == FALSE

\* if (!sourceContents || sourceContents.length === 0)
SkipFactCheck(contents) == Len(contents) = 0

\* the report model resolves; factCheck runs: without source content it
\* returns the fallback at once and the report is put together, otherwise
\* it asks the fact-check model and awaits it
ReportReturn ==
    /\ rep.pc = "writing"
    /\ LET contents == DefaultContents(rep.args)
       IN IF SkipFactCheck(contents)
          THEN rep' = [rep EXCEPT !.pc = "done", !.factCheck = Fallback,
                                  !.sources = rep.args.visitedUrls]
          ELSE rep' = [rep EXCEPT !.pc = "checking",
                                  !.factCheckCalls = rep.factCheckCalls + 1,
                                  !.checked = contents]
    /\ UNCHANGED <<inv, br, learnings, visitedUrls, sourceContents, sink,
                   mA, mB, mOut>>

\* the report model rejects: writeFinalReport rejects
ReportFail ==
    /\ rep.pc = "writing"
    /\ rep' = [rep EXCEPT !.pc = "failed"]
    /\ UNCHANGED <<inv, br, learnings, visitedUrls, sourceContents, sink,
                   mA, mB, mOut>>

\* the fact-check model resolves; the sections are appended (lines 209-224)
FactCheckReturn(facts) ==
    /\ rep.pc = "checking"
    /\ rep' = [rep EXCEPT !.pc = "done",
                          !.factCheck = [unsupportedFacts |-> facts,
                                         overallAssessment |-> "assessed"],
                          !.sources = rep.args.visitedUrls]
    /\ UNCHANGED <<inv, br, learnings, visitedUrls, sourceContents, sink,
                   mA, mB, mOut>>

\* the fact-check model rejects: factCheck and writeFinalReport reject
FactCheckFail ==
    /\ rep.pc = "checking"
    /\ rep' = [rep EXCEPT !.pc = "failed"]
    /\ UNCHANGED <<inv, br, learnings, visitedUrls, sourceContents, sink,
                   mA, mB, mOut>>

\* performResearch after `await deepResearch(...)`: it takes learnings and
\* visitedUrls out of the result and calls writeFinalReport with the prompt
\* and these two, in the turn in which the top-level call returns
AfterResearch(i) ==
    IF inv[<<>>].state # "returned" /\ i[<<>>].state = "returned"
    THEN WriteFinalReportCalled(
            [learnings |-> i[<<>>].result.learnings,
             visitedUrls |-> i[<<>>].result.visitedUrls,
             given |-> FALSE, sourceContents |-> <<>>])
    ELSE rep

----------------------------------------------------------------------------
(* The top-level call *)

\* the variables of the merge specification, unused by the call
MergeIdle == mA = EmptyResult /\ mB = EmptyResult /\ mOut = <<>>

\* state right after deepResearch({query, breadth, depth, onProgress}) was
\* called with the default (fresh, empty) accumulators: the progress record
\* exists and generateSerpQueries is pending
Init ==
    /\ \E breadth \in 0..MaxBreadth, depth \in 0..MaxDepth :
           inv = [p \in {<<>>} |-> NewInvocation(breadth, depth)]
    /\ br = [p \in {} |-> NewBranch]
    /\ learnings = <<>>
    /\ visitedUrls = <<>>
    /\ sourceContents = <<>>
    /\ sink = NoSink
    /\ rep = NoReport
    /\ MergeIdle

PureUnchanged == UNCHANGED <<mA, mB, mOut>>
AccUnchanged == UNCHANGED <<learnings, visitedUrls, sourceContents>>

\* generateSerpQueries of invocation q resolves: the language model answered
\* with m queries (no more than MaxBranches leaves room for in the tree),
\* slice keeps at most breadth of them; then lines 264-273: the progress
\* report, the new gate, and the first ConcurrencyLimit branches start; with
\* no query at all Promise.all([]) resolves and the invocation returns
GenReturn(q, m) ==
    /\ q \in DOMAIN inv /\ inv[q].state = "gen"
    /\ m \in 0..(MaxBranches - Cardinality(DOMAIN br))
    /\ LET n  == SliceCount(m, inv[q].breadth)
           up == [totalQueries |-> n,
                  currentQuery |-> IF n > 0 THEN q \o <<1>> ELSE NoQuery]
           pr == Assign(inv[q].progress, up)
           i1 == [inv EXCEPT ![q].state = "running", ![q].nq = n,
                             ![q].progress = pr]
           new == {q \o <<i>> : i \in 1..n}
           b0 == [c \in DOMAIN br \cup new |->
                     IF c \in new THEN NewBranch ELSE br[c]]
           b1 == StartAll(b0, q)
           s  == IF n > 0 THEN [inv |-> i1, br |-> b1, acc |-> Acc]
                 ELSE SettleInvocation(
                        [inv |-> [i1 EXCEPT ![q].state = "returned",
                                            ![q].result = Merge(<<>>)],
                         br |-> b1, acc |-> Acc], q)
       IN /\ inv' = s.inv
          /\ br' = s.br
          /\ rep' = AfterResearch(s.inv)
          /\ sink' = Notify(sink, q, pr, up)
    /\ AccUnchanged /\ PureUnchanged

\* generateSerpQueries of invocation q rejects: line 258 is outside any try
GenFail(q) ==
    /\ q \in DOMAIN inv /\ inv[q].state = "gen"
    /\ LET s == SettleInvocation(
                  [inv |-> [inv EXCEPT ![q].state = "failed"],
                   br |-> br, acc |-> Acc], q)
       IN inv' = s.inv /\ br' = s.br /\ rep' = AfterResearch(s.inv)
    /\ UNCHANGED sink /\ AccUnchanged /\ PureUnchanged

\* firecrawl.search resolves; processSerpResult starts and awaits the model
SearchReturn(c) ==
    /\ c \in DOMAIN br /\ br[c].pc = "search"
    /\ br' = [br EXCEPT ![c].pc = "extract"]
    /\ UNCHANGED <<inv, sink, rep>> /\ AccUnchanged /\ PureUnchanged

CaughtReturnsShared(c, outcome) ==
    LET s == Settle([inv |-> inv,
                     br |-> [br EXCEPT ![c].pc = "done",
                                       ![c].outcome = outcome,
                                       ![c].result = [kind |-> "ref",
                                                      val |-> EmptyResult]],
                     acc |-> Acc], c)
    IN inv' = s.inv /\ br' = s.br /\ rep' = AfterResearch(s.inv)

CaughtRethrows(c, outcome) ==
    LET s == Settle([inv |-> inv,
                     br |-> [br EXCEPT ![c].pc = "rejected",
                                       ![c].outcome = outcome],
                     acc |-> Acc], c)
    IN inv' = s.inv /\ br' = s.br /\ rep' = AfterResearch(s.inv)

\* the catch block of lines 333-347, then the settling of the branch
Caught(c, outcome) ==
    LET s == Settle([inv |-> inv,
                     br |-> [br EXCEPT ![c].pc = "done",
                                       ![c].outcome = outcome,
                                       ![c].result = [kind |-> "val",
                                                      val |-> EmptyResult]],
                     acc |-> Acc], c)
    IN inv' = s.inv /\ br' = s.br /\ rep' = AfterResearch(s.inv)

\* firecrawl.search rejects (timeout or provider error)
SearchFail(c) ==
    /\ c \in DOMAIN br /\ br[c].pc = "search"
    /\ Caught(c, "searchFail")
    /\ UNCHANGED sink /\ AccUnchanged /\ PureUnchanged

\* generateObject inside processSerpResult rejects
ExtractFail(c) ==
    /\ c \in DOMAIN br /\ br[c].pc = "extract"
    /\ Caught(c, "extractFail")
    /\ UNCHANGED sink /\ AccUnchanged /\ PureUnchanged

NewBreadthFloor(breadth) == breadth \div 2

\* Math.ceil(breadth / 2)
NewBreadth(breadth) == (breadth + 1) \div 2

NewDepth(depth) == depth - 1

ShouldRecurseAtZero(newDepth) == newDepth >= 0

\* if (newDepth > 0)
ShouldRecurse(newDepth) == newDepth > 0

\* processSerpResult resolves: lines 286-332
ExtractReturn(c) ==
    /\ c \in DOMAIN br /\ br[c].pc = "extract"
    /\ LET q   == Front(c)
           pro == ProcessSerpResult(c)
           acc == [learnings      |-> learnings \o pro.learnings,
                   visitedUrls    |-> visitedUrls \o ResultUrls(c),
                   sourceContents |-> sourceContents \o pro.contents]
           nb  == NewBreadth(inv[q].breadth)
           nd  == NewDepth(inv[q].depth)
           up  == IF ShouldRecurse(nd)
                  THEN [currentDepth |-> nd, currentBreadth |-> nb,
                        completedQueries |-> NextCompleted(inv[q].progress),
                        currentQuery |-> c]
                  ELSE [currentDepth |-> 0,
                        completedQueries |-> NextCompleted(inv[q].progress),
                        currentQuery |-> c]
           pr  == Assign(inv[q].progress, up)
           i1  == [inv EXCEPT ![q].progress = pr]
           s   == IF ShouldRecurse(nd)
                  THEN [inv |-> [p \in DOMAIN i1 \cup {c} |->
                                   IF p = c THEN NewInvocation(nb, nd) ELSE i1[p]],
                        br |-> [br EXCEPT ![c].pc = "child", ![c].outcome = "ok"],
                        acc |-> acc]
                  ELSE Settle([inv |-> i1,
                               br |-> [br EXCEPT ![c].pc = "done",
                                                 ![c].outcome = "ok",
                                                 ![c].result = [kind |-> "ref",
                                                                val |-> EmptyResult]],
                               acc |-> acc], c)
       IN /\ inv' = s.inv
          /\ br' = s.br
          /\ learnings' = acc.learnings
          /\ visitedUrls' = acc.visitedUrls
          /\ sourceContents' = acc.sourceContents
          /\ rep' = AfterResearch(s.inv)
          /\ sink' = Notify(sink, q, pr, up)
    /\ PureUnchanged

Next ==
    \/ \E q \in DOMAIN inv, m \in 0..MaxBranches : GenReturn(q, m)
    \/ \E q \in DOMAIN inv : GenFail(q)
    \/ \E c \in DOMAIN br : SearchReturn(c)
    \/ \E c \in DOMAIN br : SearchFail(c)
    \/ \E c \in DOMAIN br : ExtractReturn(c)
    \/ \E c \in DOMAIN br : ExtractFail(c)
    \/ ReportReturn
    \/ ReportFail

Spec == Init /\ [][Next]_vars

----------------------------------------------------------------------------
(* The merge as a pure function: the inputs are drawn at the start and one *)
(* step applies the merge to [A, B], [B, A], [A, A] and [A].               *)

RECURSIVE SeqsUpTo(_, _)
SeqsUpTo(S, n) ==
    IF n = 0 THEN {<<>>}
    ELSE SeqsUpTo(S, n - 1) \cup
         {Append(t, x) : t \in SeqsUpTo(S, n - 1), x \in S}

MergeInputs ==
    [learnings      : SeqsUpTo({"a", "b"}, MaxLen),
     visitedUrls    : SeqsUpTo({"u"}, MaxLen),
     sourceContents : SeqsUpTo({"c"}, MaxLen)]

MergeInit ==
    /\ inv = [p \in {<<>>} |-> NewInvocation(0, 0)]
    /\ br = [p \in {} |-> NewBranch]
    /\ learnings = <<>>
    /\ visitedUrls = <<>>
    /\ sourceContents = <<>>
    /\ sink = NoSink
    /\ rep = NoReport
    /\ mA \in MergeInputs
    /\ mB \in MergeInputs
    /\ mOut = <<>>

ApplyMerge ==
    /\ mOut = <<>>
    /\ mOut' = <<Merge(<<mA, mB>>), Merge(<<mB, mA>>),
                 Merge(<<mA, mA>>), Merge(<<mA>>)>>
    /\ UNCHANGED <<inv, br, sink, rep, mA, mB>> /\ AccUnchanged

MergeSpec == MergeInit /\ [][ApplyMerge]_vars

----------------------------------------------------------------------------
(* writeFinalReport on its own: the arguments are drawn at the start, with *)
(* sourceContents given or left out.                                       *)

LongContent == [id |-> <<1>>, len |-> ContentBudget]

ShortContent == [id |-> <<0>>, len |-> 10]

ReportInputs ==
    {[learnings |-> l, visitedUrls |-> u, given |-> g, sourceContents |-> c] :
        l \in SeqsUpTo({<<1>>, <<0>>}, MaxLen),
        u \in SeqsUpTo({<<1>>}, MaxLen),
        g \in BOOLEAN,
        c \in SeqsUpTo({LongContent, ShortContent}, MaxLen)}

\* what the fact-check model may answer
FactCheckAnswers ==
    {<<>>, <<[claim |-> "claim", issue |-> "issue", severity |-> "HIGH"]>>}

ReportInit ==
    /\ inv = [p \in {<<>>} |-> NewInvocation(0, 0)]
    /\ br = [p \in {} |-> NewBranch]
    /\ learnings = <<>>
    /\ visitedUrls = <<>>
    /\ sourceContents = <<>>
    /\ sink = NoSink
    /\ \E args \in ReportInputs :
          /\ args.given \/ args.sourceContents = <<>>
          /\ rep = WriteFinalReportCalled(args)
    /\ MergeIdle

ReportNext ==
    \/ ReportReturn
    \/ ReportFail
    \/ \E facts \in FactCheckAnswers : FactCheckReturn(facts)
    \/ FactCheckFail

ReportSpec == ReportInit /\ [][ReportNext]_vars

----------------------------------------------------------------------------
(* Notions the properties use *)

Top == inv[<<>>]

Fields == {"learnings", "visitedUrls", "sourceContents"}

Held == {c \in DOMAIN br : br[c].permit}

Settled(c) == br[c].pc \in {"done", "rejected"}

\* the top-level call failed in its own query generation, before any branch
TopGenFailed == Top.state = "failed" /\ Children(br, <<>>) = {}

\* every query generation so far returned exactly `breadth` queries
FullGen == \A q \in DOMAIN inv : inv[q].state # "gen" => inv[q].nq = inv[q].breadth

\* no collaborator call has failed so far
NoFailure ==
    /\ \A q \in DOMAIN inv : inv[q].state # "failed"
    /\ \A c \in DOMAIN br : br[c].outcome \in {"none", "ok"}

Max(a, b) == IF a >= b THEN a ELSE b

\* some collaborator call is outstanding
Pending ==
    \/ \E q \in DOMAIN inv : inv[q].state = "gen"
    \/ \E c \in DOMAIN br : br[c].pc \in {"search", "extract"}
    \/ rep.pc \in {"writing", "checking"}

\* the collaborator calls still to come are at most: for an invocation
\* entered with (breadth, depth), its query generation and then what each
\* of its at most `breadth` branches can make; for a branch, the search, the
\* extraction and what the child invocation can make
RECURSIVE InvocationWork(_, _)
PerBranchWork(breadth, depth) ==
    2 + IF ShouldRecurse(NewDepth(depth))
        THEN InvocationWork(NewBreadth(breadth), NewDepth(depth))
        ELSE 0

InvocationWork(breadth, depth) == 1 + breadth * PerBranchWork(breadth, depth)

BranchWork(c) ==
    LET most == PerBranchWork(inv[Front(c)].breadth, inv[Front(c)].depth)
    IN CASE br[c].pc \in {"queued", "search"} -> most
         [] br[c].pc = "extract" -> most - 1
         [] OTHER -> 0

\* the calls writeFinalReport can still make
ReportWork ==
    CASE rep.pc = "writing" -> 2
      [] rep.pc = "checking" -> 1
      [] rep.pc = "idle" /\ inv[<<>>].state \in {"gen", "running"} -> 2
      [] OTHER -> 0

RECURSIVE GenerationsWork(_)
GenerationsWork(S) ==
    IF S = {} THEN 0
    ELSE LET q == CHOOSE x \in S : TRUE
         IN InvocationWork(inv[q].breadth, inv[q].depth) + GenerationsWork(S \ {q})

RECURSIVE BranchesWork(_)
BranchesWork(S) ==
    IF S = {} THEN 0
    ELSE LET c == CHOOSE x \in S : TRUE
         IN BranchWork(c) + BranchesWork(S \ {c})

\* an upper bound of the collaborator calls still to come
Work ==
    GenerationsWork({q \in DOMAIN inv : inv[q].state = "gen"})
    + BranchesWork(DOMAIN br)
    + ReportWork

\* what a branch whose search and extraction succeed contributes
Contribution(c) ==
    [learnings      |-> Range(ExtractedLearnings(c)),
     visitedUrls    |-> {SearchData(c)[i].url : i \in 1..Len(SearchData(c))}
                           \ {<<>>},
     sourceContents |-> {TrimPrompt(SearchData(c)[i].markdown, ContentBudget) :
                           i \in {j \in 1..Len(SearchData(c)) :
                                     SearchData(c)[j].markdown # EmptyStr}}]

----------------------------------------------------------------------------
(* Properties *)

\* C1: while the top-level call runs, the branches of its whole recursion
\* tree that hold a permit at the same time are never more than
\* ConcurrencyLimit.
C1_TreeWidePermitBound ==
    Top.state \in {"gen", "running"} => Cardinality(Held) <= ConcurrencyLimit

\* C2: no failure of a collaborator call made inside a branch (the child
\* invocation's query generation included) makes the top-level call fail:
\* the top-level call fails only if its own query generation failed.
C2_BranchFailuresNeverReachTop ==
    Top.state = "failed" => TopGenFailed

\* C3: when the top-level call returns, each field of its result is, as a
\* set, everything that was appended to the corresponding accumulator.
C3_ResultIsEverythingAppended ==
    Top.state = "returned" =>
        /\ Range(Top.result.learnings) = Range(learnings)
        /\ Range(Top.result.visitedUrls) = Range(visitedUrls)
        /\ Range(Top.result.sourceContents) = Range(sourceContents)

\* C4: a call with depth 1 whose query generation succeeded never fails,
\* whatever searches and extractions fail, and when it returns each field of
\* its result is exactly what the branches whose search and extraction
\* succeeded contribute.
C4_DepthOneIsolation ==
    Top.depth = 1 =>
        /\ Top.state = "failed" => TopGenFailed
        /\ Top.state = "returned" =>
              \A f \in Fields :
                 Range(Top.result[f]) =
                    UNION {Contribution(c)[f] :
                             c \in {d \in DOMAIN br : br[d].outcome = "ok"}}

C4_Witness ==
    /\ Top.depth = 1 /\ Top.state = "returned" /\ Top.nq = 2
    /\ br[<<1>>].outcome = "ok" /\ br[<<2>>].outcome = "searchFail"
    /\ Range(Top.result.visitedUrls) = {<<1>>, <<0>>}

\* C5: from one progress snapshot delivered to the sink to the next,
\* completedQueries never decreases.
C5_CompletedNeverDecreases ==
    [][(sink.n > 0 /\ sink'.n > sink.n) =>
          sink'.snap.completedQueries >= sink.snap.completedQueries]_vars

\* C6: an invocation that has returned has no unfinished branch anywhere
\* below it, and when the top-level call has returned or failed no branch
\* of the tree is still queued or running.
C6_NothingLeftRunning ==
    /\ \A q \in DOMAIN inv : inv[q].state = "returned" =>
          \A c \in DOMAIN br :
             (Len(c) > Len(q) /\ SubSeq(c, 1, Len(q)) = q) => Settled(c)
    /\ Top.state \in {"returned", "failed"} =>
          \A c \in DOMAIN br : Settled(c)

\* C7: no permit is held once the top-level call has returned; no permit is
\* held either once no collaborator call is outstanding; and every step
\* lowers Work, so that no run goes on for ever: whenever the outstanding
\* calls keep settling, every permit acquired is released in the end, after
\* a success and after a failure of its branch alike.
C7_PermitsReleased ==
    /\ [](Top.state = "returned" => Held = {})
    /\ [](~Pending => Held = {})
    /\ [][Work' < Work]_vars

C7_Witness ==
    /\ Top.state = "returned" /\ Held = {}
    /\ \E c \in DOMAIN br : br[c].outcome = "searchFail"
    /\ \E c \in DOMAIN br : br[c].outcome = "extractFail"
    /\ \E c \in DOMAIN br : br[c].outcome = "ok"

\* C8: with a generator that always returns breadth >= 1 queries and no
\* failing collaborator, a branch at level n recurses iff depth0 - n > 0, no
\* branch exists below level max(depth0, 1), and every terminal branch is at
\* level max(depth0, 1) (level 1 for depth0 = 0).
C8_ExactlyDepthLevels ==
    (Top.breadth >= 1 /\ FullGen /\ NoFailure) =>
        \A c \in DOMAIN br :
           /\ Len(c) <= Max(Top.depth, 1)
           /\ br[c].outcome = "ok" =>
                /\ (c \in DOMAIN inv) <=> (Top.depth - Len(c) > 0)
                /\ (c \notin DOMAIN inv) => Len(c) = Max(Top.depth, 1)

C8_Witness ==
    /\ Top.depth = 3 /\ Top.breadth >= 1 /\ FullGen /\ NoFailure
    /\ Top.state = "returned"
    /\ \E c \in DOMAIN br : Len(c) = 3 /\ br[c].outcome = "ok" /\ c \notin DOMAIN inv

\* C9: the breadth of the invocation at recursion level n is
\* ceil(breadth0 / 2^n).
C9_BreadthAtLevel ==
    \A q \in DOMAIN inv : inv[q].breadth = CeilDiv(Top.breadth, Pow2(Len(q)))

C9_Witness ==
    \E q \in DOMAIN inv : Len(q) = 2 /\ Top.breadth = 3 /\ inv[q].breadth = 1

\* C10: as sets, per field, merging [A, B] equals merging [B, A] and
\* merging [A, A] equals merging [A].
C10_MergeCommutativeIdempotent ==
    mOut # <<>> =>
        \A f \in Fields :
           /\ Range(mOut[1][f]) = Range(mOut[2][f])
           /\ Range(mOut[3][f]) = Range(mOut[4][f])

C10_Witness ==
    /\ mOut # <<>>
    /\ mA.learnings = <<"a", "b">> /\ mB.learnings = <<"b", "a">>
    /\ mOut[1].learnings = <<"a", "b">> /\ mOut[2].learnings = <<"b", "a">>

\* C13: report assembly asks the fact-check model if and only if it is given
\* a non-empty sourceContents; given an empty list, or none, it makes no call
\* and the result is the fallback: no unsupported fact and the 'Unable to
\* fact check' assessment.
C13_FactCheckIffContents ==
    LET nonEmpty == rep.args.given /\ Len(rep.args.sourceContents) > 0
    IN /\ rep.factCheckCalls <= 1
       /\ rep.factCheckCalls = 1 => nonEmpty
       /\ rep.pc \in {"checking", "done"} => (nonEmpty => rep.factCheckCalls = 1)
       /\ (rep.pc = "done" /\ ~nonEmpty) =>
             /\ rep.factCheck.unsupportedFacts = <<>>
             /\ rep.factCheck.overallAssessment =
                   "Unable to fact check - no source content available"

C13_Witness ==
    /\ rep.pc = "done" /\ rep.args.given /\ rep.args.sourceContents = <<>>
    /\ rep.factCheckCalls = 0 /\ rep.factCheck = Fallback

\* C19: in the end-to-end run the report is written from the research
\* result's source contents too, so a report finished after research that
\* returned a non-empty sourceContents has a Fact Check section that comes
\* from a call of the fact-check model.
C19_ReportCheckedAgainstSources ==
    (rep.pc = "done" /\ Len(Top.result.sourceContents) > 0) =>
        /\ rep.args.given /\ rep.args.sourceContents = Top.result.sourceContents
        /\ rep.factCheckCalls = 1

\* C11: a failure in one branch never stops its siblings: no sub-query is
\* searched twice, and once no collaborator call is outstanding (every run
\* gets there, each step lowering Work) every sub-query that any invocation
\* generated has been searched, whatever its siblings did.
C11_EverySubQuerySearchedOnce ==
    /\ [](\A c \in DOMAIN br : br[c].searches <= 1)
    /\ [](~Pending => \A c \in DOMAIN br : br[c].searches = 1)
    /\ [][Work' <= Work - 1]_vars

C11_Witness ==
    /\ ~Pending /\ Top.nq = 3
    /\ br[<<1>>].outcome = "searchFail" /\ br[<<2>>].outcome = "extractFail"
    /\ br[<<3>>].searches = 1 /\ br[<<3>>].outcome = "ok"

NoDuplicate(s) == \A i, j \in 1..Len(s) : i # j => s[i] # s[j]

\* C12: no field of a result that deepResearch returned, at any level, holds
\* the same string twice.
C12_ResultsHaveNoDuplicates ==
    \A q \in DOMAIN inv : inv[q].state = "returned" =>
        \A f \in Fields : NoDuplicate(inv[q].result[f])

C12_Witness ==
    /\ Top.state = "returned"
    /\ ~NoDuplicate(learnings) /\ ~NoDuplicate(visitedUrls)
    /\ ~NoDuplicate(sourceContents)
    /\ \E q \in DOMAIN inv : q # <<>> /\ inv[q].state = "returned"
                              /\ Len(inv[q].result.learnings) > 1

\* C14: every progress snapshot delivered to the sink, from whatever level
\* of the recursion, carries the depth and breadth arguments of the
\* top-level call as totalDepth and totalBreadth.
C14_SnapshotsCarryTopLevelTotals ==
    sink.n > 0 => /\ sink.snap.totalDepth = Top.depth
                  /\ sink.snap.totalBreadth = Top.breadth

\* C15: a step notifies the sink at most once; a notifying step is one
\* reportProgress(update) of one invocation: the fields of update have the
\* supplied values, every other field of that invocation's record is as
\* before, the sink receives that full record, and no other invocation's
\* record changes; a step that does not notify changes no record.
C15_UpdateOverwritesSuppliedFieldsOnly ==
    [][/\ sink'.n \in {sink.n, sink.n + 1}
       /\ sink'.n = sink.n + 1 =>
            LET q == sink'.by
            IN /\ q \in DOMAIN inv
               /\ \A f \in DOMAIN inv[q].progress :
                     inv'[q].progress[f] =
                        IF f \in DOMAIN sink'.update THEN sink'.update[f]
                        ELSE inv[q].progress[f]
               /\ DOMAIN sink'.update \subseteq DOMAIN inv[q].progress
               /\ sink'.snap = inv'[q].progress
               /\ \A p \in DOMAIN inv \ {q} : inv'[p].progress = inv[p].progress
       /\ sink'.n = sink.n =>
            \A p \in DOMAIN inv : inv'[p].progress = inv[p].progress]_vars

C15_Witness ==
    /\ sink.n > 1 /\ sink.by # <<>>
    /\ DOMAIN sink.update = {"currentDepth", "completedQueries", "currentQuery"}
    /\ sink.snap.totalQueries = 2 /\ sink.snap.completedQueries = 2
    /\ sink.snap.totalDepth = 1 /\ sink.snap.totalBreadth = 2

\* C20: the completedQueries of every snapshot is the number of branches of
\* the emitting invocation that completed search and extraction, between 0
\* and the invocation's totalQueries.
C20_CompletedCountsSuccessfulBranches ==
    sink.n > 0 =>
        /\ sink.snap.completedQueries =
              Cardinality({c \in Children(br, sink.by) : br[c].outcome = "ok"})
        /\ 0 <= sink.snap.completedQueries
        /\ sink.snap.completedQueries <= sink.snap.totalQueries

C20_Witness ==
    /\ sink.n > 0 /\ sink.snap.totalQueries = 3
    /\ sink.snap.completedQueries = 2
    /\ \E c \in Children(br, sink.by) :
          br[c].outcome \in {"searchFail", "extractFail"}

Failed(c) == br[c].outcome \in {"searchFail", "extractFail"}

\* C18: the step in which a branch's search or extraction fails appends
\* nothing to the three accumulators, changes no progress record, delivers
\* no notification, and resolves the branch with three empty lists.
C18_FailedBranchContributesNothing ==
    [][\A c \in DOMAIN br :
          (br[c].outcome = "none" /\ Failed(c)') =>
              /\ learnings' = learnings
              /\ visitedUrls' = visitedUrls
              /\ sourceContents' = sourceContents
              /\ sink' = sink
              /\ \A q \in DOMAIN inv : inv'[q].progress = inv[q].progress
              /\ br'[c].pc = "done"
              /\ Deref(br'[c].result, Acc') = EmptyResult]_vars

C18_Witness ==
    \E c \in DOMAIN br :
        /\ Failed(c) /\ br[c].pc = "done"
        /\ Deref(br[c].result, Acc) = EmptyResult
        /\ Len(learnings) > 0 /\ Len(visitedUrls) > 0 /\ Len(sourceContents) > 0
        /\ inv[Front(c)].progress.completedQueries = 1
        /\ sink.by = Front(c)

\* C16: once every collaborator call has returned or failed, the top-level
\* call has returned.
C16_TopLevelCallReturns ==
    ~Pending => Top.state = "returned"

\* The schedule in which the branches of every invocation run one after the
\* other, each with everything below it, before the next one's search
\* returns. Accumulators and results are kept as the sets of the branches
\* whose entries they hold. r.refs: some branch so far resolved with the
\* shared accumulators; r.vals: what the child invocations returned.
RECURSIVE SeqBranches(_, _, _, _)
RECURSIVE SeqCall(_, _)
SeqBranches(q, i, A, r) ==
    IF i > inv[q].nq
    THEN [acc |-> A, val |-> IF r.refs THEN A ELSE r.vals]
    ELSE LET c == q \o <<i>>
         IN IF br[c].outcome # "ok" THEN SeqBranches(q, i + 1, A, r)
            ELSE IF c \in DOMAIN inv
                 THEN LET child == SeqCall(c, A \cup {c})
                      IN SeqBranches(q, i + 1, child.acc,
                                     [r EXCEPT !.vals = r.vals \cup child.val])
                 ELSE SeqBranches(q, i + 1, A \cup {c},
                                  [r EXCEPT !.refs = TRUE])

SeqCall(q, A) == SeqBranches(q, 1, A, [refs |-> FALSE, vals |-> {}])

EntriesOf(S, f) == UNION {Contribution(c)[f] : c \in S}

\* C17: with the collaborator outputs fixed (the queries each generation
\* returned, and which searches and extractions failed), the result of the
\* top-level call is, as a set, the same in every interleaving: it is what
\* the one-branch-after-the-other schedule returns for these outputs.
C17_ResultIndependentOfInterleaving ==
    Top.state = "returned" =>
        \A f \in Fields :
            Range(Top.result[f]) = EntriesOf(SeqCall(<<>>, {}).val, f)

====
